---- MODULE Spec2Model ----
(***************************************************************************)
(* autogit: a sequential batch tool that synchronises a list of git        *)
(* repositories (fetch, pull --rebase, add, staged-diff check, commit,     *)
(* push), driven by a JSON configuration file.                             *)
(*                                                                         *)
(* The model follows src/autogit.py: main() loads the configuration,       *)
(* captures one timestamp, and calls sync_repo() for every repository in   *)
(* list order.  Each external command passed to run_capture() is recorded  *)
(* in `cmds`; each "[DRY] ..." line printed instead of running a command   *)
(* is recorded in `printed`.                                               *)
(***************************************************************************)
EXTENDS Integers, Sequences, FiniteSets, TLC

\* Longest `repos` list of a configuration file.
MaxRepos == 2

\* Exit codes of a child process, one per class the program tells apart.
\* fetch, pull, add, commit, push: 0 success, 1 any non-zero code.
ExitCodes == {0, 1}
\* git diff --cached --quiet: 0 nothing staged, 1 staged changes exist,
\* 2 any code above 1 (the check itself failed).
DiffExitCodes == {0, 1, 2}

\* State of a repository path on disk, as sync_repo's checks see it.
DiskStates == {"missing", "nogit", "repo"}

\* Values datetime.now().strftime(...) can yield during a run: the clock
\* shows the first, then the second.
Timestamps == {"2026-01-01 00:00:00", "2026-01-01 00:00:09"}

----------------------------------------------------------------------------
(* The configuration file.  An optional JSON key is a sequence: <<>> when  *)
(* the key is absent, <<v>> when it is present with value v.               *)

\* Entries of the `repos` list.
EntryNoPath ==
    [path |-> <<>>, remote |-> <<>>, branch |-> <<>>, message |-> <<>>,
     excludes |-> <<>>]
EntryPathOnly ==
    [path |-> <<"~/vault">>, remote |-> <<>>, branch |-> <<>>,
     message |-> <<>>, excludes |-> <<>>]
EntryFull ==
    [path |-> <<"/srv/notes">>, remote |-> <<"backup">>,
     branch |-> <<"trunk">>, message |-> << <<"sync ", "{timestamp}">> >>,
     excludes |-> << <<"*.tmp">> >>]
RawEntries == {EntryNoPath, EntryPathOnly, EntryFull}

RECURSIVE SeqsUpTo(_, _)
SeqsUpTo(S, n) ==
    IF n = 0 THEN {<<>>}
    ELSE LET shorter == SeqsUpTo(S, n - 1)
         IN  shorter \cup {Append(s, e) : s \in {t \in shorter : Len(t) = n - 1}, e \in S}

\* Values of the `repos` key: absent, not a list, or a list of entries.
ReposRaw ==
    {[kind |-> "absent", items |-> <<>>], [kind |-> "notlist", items |-> <<>>]}
    \cup {[kind |-> "list", items |-> s] : s \in SeqsUpTo(RawEntries, MaxRepos)}

\* Values of the `global` object.
GlobalRaw ==
    [pull_rebase : {<<>>, <<FALSE>>}, push : {<<>>, <<FALSE>>},
     commit_if_no_changes : {<<>>, <<TRUE>>}]

EmptyGlobalRaw ==
    [pull_rebase |-> <<>>, push |-> <<>>, commit_if_no_changes |-> <<>>]

ConfigFiles ==
    {[exists |-> FALSE, parses |-> FALSE,
      repos_raw |-> [kind |-> "absent", items |-> <<>>],
      global_raw |-> EmptyGlobalRaw],
     [exists |-> TRUE, parses |-> FALSE,
      repos_raw |-> [kind |-> "absent", items |-> <<>>],
      global_raw |-> EmptyGlobalRaw]}
    \cup {[exists |-> TRUE, parses |-> TRUE, repos_raw |-> r, global_raw |-> gr] :
            r \in ReposRaw, gr \in GlobalRaw}

\* Entries for the check of the loader: `path` absent, or `path` with every
\* combination of the optional keys present or omitted.
LoadEntries ==
    {EntryNoPath}
    \cup [path : {<<"~/vault">>}, remote : {<<>>, <<"backup">>},
          branch : {<<>>, <<"trunk">>},
          message : {<<>>, << <<"sync ", "{timestamp}">> >>},
          excludes : {<<>>, << <<"*.tmp">> >>}]

\* `global` objects for the check of the loader: every key omitted, true
\* or false.
LoadGlobalRaw ==
    [pull_rebase : {<<>>, <<TRUE>>, <<FALSE>>},
     push : {<<>>, <<TRUE>>, <<FALSE>>},
     commit_if_no_changes : {<<>>, <<TRUE>>, <<FALSE>>}]

LoadConfigFiles ==
    {[exists |-> FALSE, parses |-> FALSE,
      repos_raw |-> [kind |-> "absent", items |-> <<>>],
      global_raw |-> EmptyGlobalRaw]}
    \cup {[exists |-> TRUE, parses |-> TRUE,
           repos_raw |-> [kind |-> "list", items |-> s], global_raw |-> gr] :
            s \in SeqsUpTo(LoadEntries, MaxRepos), gr \in LoadGlobalRaw}

----------------------------------------------------------------------------
VARIABLES
    cfg,        \* the configuration file on disk
    dry_run,    \* args.dry_run
    disk,       \* disk[i]: state on disk of the path of the i-th entry
    now,        \* the wall clock, as datetime.now().strftime(...) shows it
    first,      \* what an earlier invocation on the same repositories did
    pc,         \* position of the program
    repos,      \* list of RepoCfg returned by load_config
    g,          \* GlobalCfg returned by load_config
    ts,         \* timestamp captured by main
    i,          \* index of the repository the loop of main is at
    overall,    \* main's aggregate status
    ret,        \* outcome of the last sync_repo call
    exitcode,   \* value main returned (-1 while running)
    cmds,       \* commands passed to run_capture, in order
    printed,    \* commands printed as "[DRY] ...", in order
    calls,      \* indices of the repositories sync_repo was called for
    results     \* results[k]: outcome of the k-th sync_repo call

vars == <<cfg, dry_run, disk, now, first, pc, repos, g, ts, i, overall, ret, exitcode,
          cmds, printed, calls, results>>

\* Outcomes of a sync_repo call: it returned v, or it raised an exception.
Returned(v) == [kind |-> "return", value |-> v]
Raised == [kind |-> "raise", value |-> 1]

----------------------------------------------------------------------------
(* Pure functions of the program.                                          *)

Get(opt, default) == IF opt = <<>> THEN default ELSE opt[1]

\* Path.expanduser: a leading "~" becomes the home directory.
Expanduser(p) == IF p = "~/vault" THEN "/home/user/vault" ELSE p

DefaultGlobalCfg ==
    [pull_rebase |-> TRUE, push |-> TRUE, commit_if_no_changes |-> FALSE]

DefaultMessage == <<"Auto-commit ", "{timestamp}">>

\* Mutant of LoadFails: the emptiness test of `repos` is dropped.
LoadFails_AcceptsEmpty(c) ==
    \/ ~c.parses
    \/ c.repos_raw.kind # "list"
    \/ \E k \in DOMAIN c.repos_raw.items : c.repos_raw.items[k].path = <<>>

\* load_config raises: unparseable JSON, `repos` absent, empty or not a
\* list, or some entry without `path`.
LoadFails(c) ==
    \/ ~c.parses
    \/ c.repos_raw.kind # "list"
    \/ c.repos_raw.items = <<>>
    \/ \E k \in DOMAIN c.repos_raw.items : c.repos_raw.items[k].path = <<>>

LoadGlobal(c) ==
    [pull_rebase |-> Get(c.global_raw.pull_rebase, TRUE),
     push |-> Get(c.global_raw.push, TRUE),
     commit_if_no_changes |-> Get(c.global_raw.commit_if_no_changes, FALSE)]

\* Mutant of LoadRepos: the default branch is "master".
LoadRepos_DefaultMaster(c) ==
    [k \in DOMAIN c.repos_raw.items |->
        LET r == c.repos_raw.items[k]
        IN  [path |-> Expanduser(r.path[1]),
             remote |-> Get(r.remote, "origin"),
             branch |-> Get(r.branch, "master"),
             message |-> Get(r.message, DefaultMessage),
             excludes |-> Get(r.excludes, <<>>)]]

\* load_config: one RepoCfg per entry of `repos`, in list order.
LoadRepos(c) ==
    [k \in DOMAIN c.repos_raw.items |->
        LET r == c.repos_raw.items[k]
        IN  [path |-> Expanduser(r.path[1]),
             remote |-> Get(r.remote, "origin"),
             branch |-> Get(r.branch, "main"),
             message |-> Get(r.message, DefaultMessage),
             excludes |-> Get(r.excludes, <<>>)]]

\* build_git_add_cmd
build_git_add_cmd(excludes) ==
    <<"git", "add", "-A", "--", ".">>
    \o [k \in DOMAIN excludes |-> <<":(exclude,glob)", excludes[k]>>]

\* str.replace("{timestamp}", timestamp) on a message template
ReplaceTimestamp(message, timestamp) ==
    [k \in DOMAIN message |->
        IF message[k] = "{timestamp}" THEN timestamp ELSE message[k]]

fetch_cmd(r) == <<"git", "fetch", r.remote>>
pull_cmd(r) == <<"git", "pull", "--rebase", "--autostash", r.remote, r.branch>>
diff_cmd == <<"git", "diff", "--cached", "--quiet">>
commit_cmd(r, timestamp) ==
    <<"git", "commit", "-m", ReplaceTimestamp(r.message, timestamp)>>
push_cmd(r) == <<"git", "push", r.remote, r.branch>>

\* No earlier invocation is on record.
NoFirst ==
    [done |-> FALSE, cmds |-> <<>>, printed |-> <<>>, results |-> <<>>,
     exitcode |-> -1]

\* run_capture(cmd, cwd) returning rc: the command is recorded.  In a
\* second invocation on the same repositories the n-th child process exits
\* as the n-th child process of the first invocation did.
Run(argv, rc) ==
    /\ (first.done /\ Len(cmds) < Len(first.cmds)) =>
          rc = first.cmds[Len(cmds) + 1].rc
    /\ cmds' = Append(cmds, [repo |-> i, argv |-> argv, rc |-> rc])

\* print("[DRY] " + ' '.join(cmd))
Dry(argv) == [repo |-> i, argv |-> argv]

\* sync_repo returns v to main.
Return(v) == ret' = Returned(v) /\ pc' = "collect"

\* sync_repo raises; the exception reaches main's except clause.
Raise == ret' = Raised /\ pc' = "collect"

\* The git subcommand of a recorded or printed command.
Op(c) == c.argv[2]

----------------------------------------------------------------------------
\* main has not run yet.
InitRun ==
    /\ first = NoFirst
    /\ pc = "start"
    /\ repos = <<>>
    /\ g = DefaultGlobalCfg
    /\ ts = ""
    /\ i = 0
    /\ overall = 0
    /\ ret = Returned(0)
    /\ exitcode = -1
    /\ cmds = <<>>
    /\ printed = <<>>
    /\ calls = <<>>
    /\ results = <<>>

Init ==
    /\ cfg \in ConfigFiles
    /\ dry_run \in BOOLEAN
    /\ now \in Timestamps
    /\ disk \in [DOMAIN cfg.repos_raw.items -> DiskStates]
    /\ InitRun

\* Time passes while the program runs or waits for a child process.
Tick ==
    /\ now = "2026-01-01 00:00:00"
    /\ now' = "2026-01-01 00:00:09"
    /\ UNCHANGED <<cfg, dry_run, disk, first, pc, repos, g, ts, i, overall,
                   ret, exitcode, cmds, printed, calls, results>>

\* main: the configuration file does not exist.
MainConfigMissing ==
    /\ pc = "start"
    /\ ~cfg.exists
    /\ pc' = "done"
    /\ exitcode' = 2
    /\ UNCHANGED <<cfg, dry_run, disk, now, first, repos, g, ts, i, overall, ret, cmds,
                   printed, calls, results>>

\* main: load_config raised.
MainConfigInvalid ==
    /\ pc = "start"
    /\ cfg.exists
    /\ LoadFails(cfg)
    /\ pc' = "done"
    /\ exitcode' = 2
    /\ UNCHANGED <<cfg, dry_run, disk, now, first, repos, g, ts, i, overall, ret, cmds,
                   printed, calls, results>>

\* main: load_config returned; the timestamp is captured, overall = 0.
MainLoad ==
    /\ pc = "start"
    /\ cfg.exists
    /\ ~LoadFails(cfg)
    /\ repos' = LoadRepos(cfg)
    /\ g' = LoadGlobal(cfg)
    /\ ts' = now
    /\ overall' = 0
    /\ i' = 1
    /\ pc' = "loop"
    /\ UNCHANGED <<cfg, dry_run, disk, now, first, ret, exitcode, cmds, printed, calls,
                   results>>

\* main: the loop calls sync_repo for the next repository.
MainCall ==
    /\ pc = "loop"
    /\ i <= Len(repos)
    /\ calls' = Append(calls, i)
    /\ pc' = "validate"
    /\ UNCHANGED <<cfg, dry_run, disk, now, first, repos, g, ts, i, overall, ret,
                   exitcode, cmds, printed, results>>

\* Mutant of Validate: only the existence of the directory is tested.
Validate_OnlyExists ==
    /\ pc = "validate"
    /\ IF disk[i] = "missing" THEN Return(1) ELSE pc' = "fetch" /\ ret' = ret
    /\ UNCHANGED <<cfg, dry_run, disk, now, first, repos, g, ts, i, overall, exitcode,
                   cmds, printed, calls, results>>

\* sync_repo: the directory must exist and hold a .git entry.
Validate ==
    /\ pc = "validate"
    /\ IF disk[i] # "repo" THEN Return(1) ELSE pc' = "fetch" /\ ret' = ret
    /\ UNCHANGED <<cfg, dry_run, disk, now, first, repos, g, ts, i, overall, exitcode,
                   cmds, printed, calls, results>>

\* Mutant of Fetch: a failed fetch is treated like a failed pull.
Fetch_FailureStops ==
    /\ pc = "fetch"
    /\ IF ~g.pull_rebase
         THEN pc' = "add" /\ UNCHANGED <<cmds, printed, ret>>
         ELSE IF dry_run
           THEN /\ printed' = printed \o <<Dry(fetch_cmd(repos[i])),
                                           Dry(pull_cmd(repos[i]))>>
                /\ pc' = "add"
                /\ UNCHANGED <<cmds, ret>>
           ELSE /\ \E rc \in ExitCodes :
                     /\ Run(fetch_cmd(repos[i]), rc)
                     /\ IF rc # 0 THEN Return(1) ELSE pc' = "pull" /\ ret' = ret
                /\ UNCHANGED printed
    /\ UNCHANGED <<cfg, dry_run, disk, now, first, repos, g, ts, i, overall,
                   exitcode, calls, results>>

\* sync_repo: the pull block; in dry-run both commands are only printed.
Fetch ==
    /\ pc = "fetch"
    /\ IF ~g.pull_rebase
         THEN pc' = "add" /\ UNCHANGED <<cmds, printed>>
         ELSE IF dry_run
           THEN /\ printed' = printed \o <<Dry(fetch_cmd(repos[i])),
                                           Dry(pull_cmd(repos[i]))>>
                /\ pc' = "add"
                /\ UNCHANGED cmds
           ELSE /\ \E rc \in ExitCodes : Run(fetch_cmd(repos[i]), rc)
                /\ pc' = "pull"
                /\ UNCHANGED printed
    /\ UNCHANGED <<cfg, dry_run, disk, now, first, repos, g, ts, i, overall, ret,
                   exitcode, calls, results>>

\* Mutant of Pull: the exit code of the pull is ignored, like the fetch's.
Pull_IgnoresFailure ==
    /\ pc = "pull"
    /\ \E rc \in ExitCodes : Run(pull_cmd(repos[i]), rc)
    /\ pc' = "add"
    /\ UNCHANGED <<cfg, dry_run, disk, now, first, repos, g, ts, i, overall, ret,
                   exitcode, printed, calls, results>>

\* sync_repo: git pull --rebase --autostash; a non-zero exit returns 1.
Pull ==
    /\ pc = "pull"
    /\ \E rc \in ExitCodes :
         /\ Run(pull_cmd(repos[i]), rc)
         /\ IF rc # 0 THEN Return(1) ELSE pc' = "add" /\ ret' = ret
    /\ UNCHANGED <<cfg, dry_run, disk, now, first, repos, g, ts, i, overall, exitcode,
                   printed, calls, results>>

\* Mutant of Add: the command is run in dry-run mode too.
Add_RunsInDryRun ==
    /\ pc = "add"
    /\ \E rc \in ExitCodes :
         /\ Run(build_git_add_cmd(repos[i].excludes), rc)
         /\ IF rc # 0 THEN Return(1) ELSE pc' = "staged" /\ ret' = ret
    /\ UNCHANGED <<cfg, dry_run, disk, now, first, repos, g, ts, i, overall, exitcode,
                   printed, calls, results>>

\* sync_repo: git add -A with the excludes; a non-zero exit returns 1.
Add ==
    /\ pc = "add"
    /\ IF dry_run
         THEN /\ printed' = Append(printed, Dry(build_git_add_cmd(repos[i].excludes)))
              /\ pc' = "staged"
              /\ UNCHANGED <<cmds, ret>>
         ELSE /\ \E rc \in ExitCodes :
                   /\ Run(build_git_add_cmd(repos[i].excludes), rc)
                   /\ IF rc # 0 THEN Return(1) ELSE pc' = "staged" /\ ret' = ret
              /\ UNCHANGED printed
    /\ UNCHANGED <<cfg, dry_run, disk, now, first, repos, g, ts, i, overall, exitcode,
                   calls, results>>

\* Mutant of StagedCheck: every non-zero exit code counts as "staged".
StagedCheck_ErrorIsStaged ==
    /\ pc = "staged"
    /\ \E rc \in DiffExitCodes :
         /\ Run(diff_cmd, rc)
         /\ IF rc = 0 THEN Return(0) ELSE pc' = "commit" /\ ret' = ret
    /\ UNCHANGED <<cfg, dry_run, disk, now, first, repos, g, ts, i, overall, exitcode,
                   printed, calls, results>>

\* Mutant of StagedCheck: with commit_if_no_changes set, an empty index is
\* committed all the same.
StagedCheck_CommitIfNoChanges ==
    /\ pc = "staged"
    /\ \E rc \in DiffExitCodes :
         /\ Run(diff_cmd, rc)
         /\ IF rc = 0 /\ ~g.commit_if_no_changes THEN Return(0)
            ELSE IF rc \in {0, 1} THEN pc' = "commit" /\ ret' = ret
            ELSE Raise
    /\ UNCHANGED <<cfg, dry_run, disk, now, first, repos, g, ts, i, overall, exitcode,
                   printed, calls, results>>

\* sync_repo: git_has_staged_changes, run in dry-run mode too.
\* rc 0: nothing staged, return 0; rc 1: go on; rc > 1: RuntimeError.
StagedCheck ==
    /\ pc = "staged"
    /\ \E rc \in DiffExitCodes :
         /\ Run(diff_cmd, rc)
         /\ IF rc = 0 THEN Return(0)
            ELSE IF rc = 1 THEN pc' = "commit" /\ ret' = ret
            ELSE Raise
    /\ UNCHANGED <<cfg, dry_run, disk, now, first, repos, g, ts, i, overall, exitcode,
                   printed, calls, results>>

\* Mutant of Commit: the command is run in dry-run mode too.
Commit_RunsInDryRun ==
    /\ pc = "commit"
    /\ \E rc \in ExitCodes :
         /\ Run(commit_cmd(repos[i], ts), rc)
         /\ IF rc # 0 THEN Return(1) ELSE pc' = "push" /\ ret' = ret
    /\ UNCHANGED <<cfg, dry_run, disk, now, first, repos, g, ts, i, overall, exitcode,
                   printed, calls, results>>

\* Mutant of Commit: a failed commit is only reported, the push follows.
Commit_IgnoresFailure ==
    /\ pc = "commit"
    /\ IF dry_run
         THEN /\ printed' = Append(printed, Dry(commit_cmd(repos[i], ts)))
              /\ UNCHANGED cmds
         ELSE /\ \E rc \in ExitCodes : Run(commit_cmd(repos[i], ts), rc)
              /\ UNCHANGED printed
    /\ pc' = "push"
    /\ UNCHANGED <<cfg, dry_run, disk, now, first, repos, g, ts, i, overall, ret,
                   exitcode, calls, results>>

\* Mutant of Commit: the timestamp is read from the clock at commit time.
Commit_FreshTimestamp ==
    /\ pc = "commit"
    /\ IF dry_run
         THEN /\ printed' = Append(printed, Dry(commit_cmd(repos[i], now)))
              /\ pc' = "push"
              /\ UNCHANGED <<cmds, ret>>
         ELSE /\ \E rc \in ExitCodes :
                   /\ Run(commit_cmd(repos[i], now), rc)
                   /\ IF rc # 0 THEN Return(1) ELSE pc' = "push" /\ ret' = ret
              /\ UNCHANGED printed
    /\ UNCHANGED <<cfg, dry_run, disk, now, first, repos, g, ts, i, overall, exitcode,
                   calls, results>>

\* sync_repo: git commit -m <message>; a non-zero exit returns 1.
Commit ==
    /\ pc = "commit"
    /\ IF dry_run
         THEN /\ printed' = Append(printed, Dry(commit_cmd(repos[i], ts)))
              /\ pc' = "push"
              /\ UNCHANGED <<cmds, ret>>
         ELSE /\ \E rc \in ExitCodes :
                   /\ Run(commit_cmd(repos[i], ts), rc)
                   /\ IF rc # 0 THEN Return(1) ELSE pc' = "push" /\ ret' = ret
              /\ UNCHANGED printed
    /\ UNCHANGED <<cfg, dry_run, disk, now, first, repos, g, ts, i, overall, exitcode,
                   calls, results>>

\* Mutant of Push: a failed push is only reported, sync_repo returns 0.
Push_IgnoresFailure ==
    /\ pc = "push"
    /\ IF ~g.push
         THEN UNCHANGED <<cmds, printed>>
         ELSE IF dry_run
           THEN /\ printed' = Append(printed, Dry(push_cmd(repos[i])))
                /\ UNCHANGED cmds
           ELSE /\ \E rc \in ExitCodes : Run(push_cmd(repos[i]), rc)
                /\ UNCHANGED printed
    /\ Return(0)
    /\ UNCHANGED <<cfg, dry_run, disk, now, first, repos, g, ts, i, overall, exitcode,
                   calls, results>>

\* Mutant of Push: g.push is not consulted.
Push_IgnoresFlag ==
    /\ pc = "push"
    /\ IF dry_run
         THEN /\ printed' = Append(printed, Dry(push_cmd(repos[i])))
              /\ Return(0)
              /\ UNCHANGED cmds
         ELSE /\ \E rc \in ExitCodes :
                   /\ Run(push_cmd(repos[i]), rc)
                   /\ IF rc # 0 THEN Return(1) ELSE Return(0)
              /\ UNCHANGED printed
    /\ UNCHANGED <<cfg, dry_run, disk, now, first, repos, g, ts, i, overall, exitcode,
                   calls, results>>

\* sync_repo: git push (only if g.push), then return 0.
Push ==
    /\ pc = "push"
    /\ IF ~g.push
         THEN Return(0) /\ UNCHANGED <<cmds, printed>>
         ELSE IF dry_run
           THEN /\ printed' = Append(printed, Dry(push_cmd(repos[i])))
                /\ Return(0)
                /\ UNCHANGED cmds
           ELSE /\ \E rc \in ExitCodes :
                     /\ Run(push_cmd(repos[i]), rc)
                     /\ IF rc # 0 THEN Return(1) ELSE Return(0)
                /\ UNCHANGED printed
    /\ UNCHANGED <<cfg, dry_run, disk, now, first, repos, g, ts, i, overall, exitcode,
                   calls, results>>

Max(a, b) == IF a >= b THEN a ELSE b

\* Mutant of Aggregate: overall = rc, the last status wins.
Aggregate_LastWins(o, r) == IF r.kind = "raise" THEN 1 ELSE r.value

\* main's try/except around sync_repo: overall = max(overall, rc), or
\* overall = 1 when sync_repo raised.
Aggregate(o, r) == IF r.kind = "raise" THEN 1 ELSE Max(o, r.value)

\* Mutant of MainCollect: no try/except, an exception of sync_repo ends
\* the run.
MainCollect_AbortOnRaise ==
    /\ pc = "collect"
    /\ results' = Append(results, ret)
    /\ IF ret.kind = "raise"
         THEN /\ pc' = "done"
              /\ exitcode' = 1
              /\ UNCHANGED <<overall, i>>
         ELSE /\ overall' = Max(overall, ret.value)
              /\ i' = i + 1
              /\ pc' = "loop"
              /\ UNCHANGED exitcode
    /\ UNCHANGED <<cfg, dry_run, disk, now, first, repos, g, ts, ret, cmds, printed,
                   calls>>

\* main: the outcome of sync_repo is folded into overall; next repository.
MainCollect ==
    /\ pc = "collect"
    /\ overall' = Aggregate(overall, ret)
    /\ results' = Append(results, ret)
    /\ i' = i + 1
    /\ pc' = "loop"
    /\ UNCHANGED <<cfg, dry_run, disk, now, first, repos, g, ts, ret, exitcode, cmds,
                   printed, calls>>

\* main: the loop is over; return overall.
MainReturn ==
    /\ pc = "loop"
    /\ i > Len(repos)
    /\ exitcode' = overall
    /\ pc' = "done"
    /\ UNCHANGED <<cfg, dry_run, disk, now, first, repos, g, ts, i, overall, ret, cmds,
                   printed, calls, results>>

Next ==
    \/ MainConfigMissing
    \/ MainConfigInvalid
    \/ MainLoad
    \/ MainCall
    \/ Validate
    \/ Fetch
    \/ Pull
    \/ Add
    \/ StagedCheck
    \/ Commit
    \/ Push
    \/ MainCollect
    \/ MainReturn

Spec == Init /\ [][Next]_vars

\* Initial states for the liveness check: the entries of `repos` give a
\* path or nothing (remote, branch, message and excludes only change the
\* arguments of the commands, never the control flow).
FairInit ==
    /\ Init
    /\ \A k \in DOMAIN cfg.repos_raw.items :
          cfg.repos_raw.items[k] \in {EntryNoPath, EntryPathOnly}

\* Every step of the program is taken once it is enabled: the program is
\* sequential and every external command is assumed to return.
FairSpec == FairInit /\ [][Next]_vars /\ WF_vars(Next)

\* The program over entries that give a path or nothing, for the properties
\* of the command sequence of sync_repo.
SyncSpec == FairInit /\ [][Next]_vars

\* The program under a clock that moves during the run.  `push` and
\* commit_if_no_changes are omitted and every path is a git repository:
\* none of them bears on the clock or on the commit message.
ClockInit ==
    /\ Init
    /\ cfg.global_raw.push = <<>>
    /\ cfg.global_raw.commit_if_no_changes = <<>>
    /\ \A k \in DOMAIN disk : disk[k] = "repo"

ClockNext == Tick \/ Next

ClockSpec == ClockInit /\ [][ClockNext]_vars

\* The configuration file with commit_if_no_changes changed to the other
\* value.
FlipFlag(c) ==
    [c EXCEPT !.global_raw.commit_if_no_changes =
        IF c.global_raw.commit_if_no_changes = <<TRUE>> THEN <<>> ELSE <<TRUE>>]

\* The tool is invoked a second time (line 218) on the same repositories,
\* with the same arguments, after commit_if_no_changes was changed in the
\* configuration file; what the first invocation did is kept in `first`.
Rerun ==
    /\ pc = "done"
    /\ ~first.done
    /\ cfg.parses
    /\ first' = [done |-> TRUE, cmds |-> cmds, printed |-> printed,
                 results |-> results, exitcode |-> exitcode]
    /\ cfg' = FlipFlag(cfg)
    /\ pc' = "start"
    /\ repos' = <<>>
    /\ g' = DefaultGlobalCfg
    /\ ts' = ""
    /\ i' = 0
    /\ overall' = 0
    /\ ret' = Returned(0)
    /\ exitcode' = -1
    /\ cmds' = <<>>
    /\ printed' = <<>>
    /\ calls' = <<>>
    /\ results' = <<>>
    /\ UNCHANGED <<dry_run, disk, now>>

\* Two invocations at the same clock reading; the entries of `repos` give
\* a path or nothing.
TwinInit ==
    /\ FairInit
    /\ now = "2026-01-01 00:00:00"

TwinNext ==
    \/ MainConfigMissing
    \/ MainConfigInvalid
    \/ MainLoad
    \/ MainCall
    \/ Validate
    \/ Fetch
    \/ Pull
    \/ Add
    \/ StagedCheck
    \/ Commit
    \/ Push
    \/ MainCollect
    \/ MainReturn
    \/ Rerun

TwinSpec == TwinInit /\ [][TwinNext]_vars

\* The loader alone: main up to the return of load_config, over every
\* combination of omitted and given keys.
LoadInit ==
    /\ cfg \in LoadConfigFiles
    /\ dry_run = FALSE
    /\ now \in Timestamps
    /\ disk = [k \in DOMAIN cfg.repos_raw.items |-> "repo"]
    /\ InitRun

LoadNext == Tick \/ MainConfigMissing \/ MainConfigInvalid \/ MainLoad

LoadSpec == LoadInit /\ [][LoadNext]_vars

TypeOK ==
    /\ pc \in {"start", "loop", "validate", "fetch", "pull", "add", "staged",
               "commit", "push", "collect", "done"}
    /\ overall \in {0, 1}
    /\ exitcode \in {-1, 0, 1, 2}
    /\ Len(results) <= Len(calls)

----------------------------------------------------------------------------
(* Vocabulary of the properties, stated on the configuration file, the     *)
(* disk, and the recorded commands.                                        *)

\* The configuration file exists, parses, and holds a non-empty `repos`
\* list whose entries all have `path`.
ValidConfig ==
    /\ cfg.exists
    /\ cfg.parses
    /\ cfg.repos_raw.kind = "list"
    /\ cfg.repos_raw.items # <<>>
    /\ \A k \in DOMAIN cfg.repos_raw.items : cfg.repos_raw.items[k].path # <<>>

\* Indices of the configured repositories, in list order.
ConfiguredOrder == [k \in DOMAIN cfg.repos_raw.items |-> k]

IsPrefix(s, t) == Len(s) <= Len(t) /\ \A k \in DOMAIN s : s[k] = t[k]

\* Status code a sync_repo outcome counts as: a raised exception counts 1.
StatusOf(r) == IF r.kind = "raise" THEN 1 ELSE r.value

\* sync_repo has finished for the k-th repository.
Finished(k) == k \in DOMAIN results

\* Some command with a subcommand in ops was run for repository k.
Ran(k, ops) == \E n \in DOMAIN cmds : cmds[n].repo = k /\ Op(cmds[n]) \in ops

\* Command op was run for repository k and exited with a code in rcs.
RanWith(k, op, rcs) ==
    \E n \in DOMAIN cmds :
        cmds[n].repo = k /\ Op(cmds[n]) = op /\ cmds[n].rc \in rcs

\* Some command with a subcommand in ops was printed for repository k.
Printed(k, ops) ==
    \E n \in DOMAIN printed : printed[n].repo = k /\ Op(printed[n]) \in ops

\* Subcommands printed as "[DRY]" for repository k, in order.
PrintedOps(k) ==
    LET OfRepo(c) == c.repo = k
        sel == SelectSeq(printed, OfRepo)
    IN  [n \in DOMAIN sel |-> Op(sel[n])]

Mutating == {"fetch", "pull", "add", "commit", "push"}

----------------------------------------------------------------------------
\* C1: for a valid configuration, once main has returned, every repository
\* has an outcome and the exit code is the maximum of the per-repository
\* status codes (a raised exception counting as 1): 0 exactly when every
\* repository returned 0, 1 exactly when some repository returned 1 or raised.
C1_ExitCodeIsMax ==
    (pc = "done" /\ ValidConfig) =>
        /\ Len(results) = Len(cfg.repos_raw.items)
        /\ exitcode \in {0, 1}
        /\ \A k \in DOMAIN results : StatusOf(results[k]) <= exitcode
        /\ (exitcode = 0 <=> \A k \in DOMAIN results : results[k] = Returned(0))
        /\ (exitcode = 1 <=>
              \E k \in DOMAIN results :
                  results[k] = Returned(1) \/ results[k] = Raised)

\* A finished run where the first repository failed and the last succeeded.
C1_Witness ==
    /\ pc = "done"
    /\ ValidConfig
    /\ Len(results) = 2
    /\ results[1] = Returned(1)
    /\ results[2] = Returned(0)
    /\ exitcode = 1

\* C2: sync_repo is only ever called for the configured repositories in
\* list order, each at most once, and for a valid configuration the run
\* eventually ends having called it once for every repository, whatever the
\* outcomes of the earlier ones.
C2_EveryRepoSynced ==
    /\ [](IsPrefix(calls, ConfiguredOrder))
    /\ (ValidConfig ~> (pc = "done" /\ calls = ConfiguredOrder))

\* A finished run where the first repository raised and the second was
\* still processed.
C2_Witness ==
    /\ pc = "done"
    /\ calls = <<1, 2>>
    /\ results[1] = Raised
    /\ Len(results) = 2

\* C3: if the configuration file is missing, unparseable, or has `repos`
\* absent, empty, not a list, or with an entry lacking `path` at any
\* position, then no command is run or printed, sync_repo is never called,
\* and main returns 2.
C3_BadConfigExits2 ==
    ~ValidConfig =>
        /\ cmds = <<>>
        /\ printed = <<>>
        /\ calls = <<>>
        /\ pc \in {"start", "done"}
        /\ (pc = "done" => exitcode = 2)

\* main has returned 2 on a list whose first entry is valid and whose
\* second entry lacks `path`.
C3_Witness ==
    /\ pc = "done"
    /\ exitcode = 2
    /\ cfg.parses
    /\ cfg.repos_raw.kind = "list"
    /\ Len(cfg.repos_raw.items) = 2
    /\ cfg.repos_raw.items[1].path # <<>>
    /\ cfg.repos_raw.items[2].path = <<>>

\* C4: in dry-run mode no fetch, pull, add, commit or push is ever passed
\* to the command runner, and every such step is printed and taken as
\* succeeded: a valid repository with staged changes gets the whole plan
\* printed and returns 0.
C4_DryRunNoMutation ==
    dry_run =>
        /\ \A n \in DOMAIN cmds : Op(cmds[n]) \notin Mutating
        /\ \A k \in DOMAIN results :
              (disk[k] = "repo" /\ RanWith(k, "diff", {1})) =>
                  /\ results[k] = Returned(0)
                  /\ PrintedOps(k) =
                        (IF g.pull_rebase THEN <<"fetch", "pull">> ELSE <<>>)
                        \o <<"add", "commit">>
                        \o (IF g.push THEN <<"push">> ELSE <<>>)

\* A dry run has gone through every step of a repository.
C4_Witness ==
    /\ dry_run
    /\ Finished(1)
    /\ PrintedOps(1) = <<"fetch", "pull", "add", "commit", "push">>

\* C5 as stated: in dry-run mode every repository of a valid configuration
\* yields status 0, so the exit code is 0.
C5_DryRunAlwaysZero ==
    (dry_run /\ ValidConfig) =>
        /\ \A k \in DOMAIN results : results[k] = Returned(0)
        /\ (pc = "done" => exitcode = 0)

\* C5 amended: in dry-run mode the outcome of a repository depends only on
\* the validation and on the staged-changes check: 1 when the directory is
\* missing or has no .git, 0 when the check exits 0 or 1, an exception when
\* the check exits above 1; the exit code is 0 exactly when every
\* repository is a git repository whose check exited 0 or 1.
C5_DryRunStatus ==
    (dry_run /\ ValidConfig) =>
        /\ \A k \in DOMAIN results :
              /\ disk[k] # "repo" => results[k] = Returned(1)
              /\ (disk[k] = "repo" /\ RanWith(k, "diff", {0, 1})) =>
                    results[k] = Returned(0)
              /\ (disk[k] = "repo" /\ RanWith(k, "diff", {2})) =>
                    results[k] = Raised
              /\ disk[k] = "repo" => RanWith(k, "diff", {0, 1, 2})
        /\ (pc = "done" =>
              (exitcode = 0 <=>
                 \A k \in DOMAIN disk :
                     disk[k] = "repo" /\ RanWith(k, "diff", {0, 1})))

\* A finished dry run: one repository with staged changes returned 0, one
\* missing directory returned 1.
C5_Witness ==
    /\ dry_run
    /\ pc = "done"
    /\ Len(results) = 2
    /\ disk[1] = "repo"
    /\ RanWith(1, "diff", {1})
    /\ results[1] = Returned(0)
    /\ disk[2] = "missing"
    /\ results[2] = Returned(1)
    /\ exitcode = 1

\* C6: in dry-run mode no git command of any kind is executed through the
\* command runner, the staged-changes check included.
C6_DryRunNoGit == dry_run => cmds = <<>>

\* C7: a repository whose directory is missing or has no .git returns 1
\* and no command is ever run for it, in dry-run and in normal mode.
C7_InvalidRepoReturns1 ==
    \A k \in DOMAIN disk :
        disk[k] # "repo" =>
            /\ \A n \in DOMAIN cmds : cmds[n].repo # k
            /\ (Finished(k) => results[k] = Returned(1))

\* A normal run finished a directory without .git after a repository that
\* ran commands.
C7_Witness ==
    /\ ~dry_run
    /\ Len(results) = 2
    /\ disk[2] = "nogit"
    /\ results[2] = Returned(1)
    /\ Ran(1, {"push"})

\* C8: when the staged-changes check exits 0, sync_repo returns 0 and
\* neither runs nor prints a commit or a push for that repository, whatever
\* `push` and `commit_if_no_changes` are.
C8_NothingStagedSkips ==
    \A k \in DOMAIN calls :
        RanWith(k, "diff", {0}) =>
            /\ ~Ran(k, {"commit", "push"})
            /\ ~Printed(k, {"commit", "push"})
            /\ (i = k => pc \notin {"commit", "push"})
            /\ (Finished(k) => results[k] = Returned(0))

\* Nothing was staged in a run with push and commit_if_no_changes enabled.
C8_Witness ==
    /\ g.push
    /\ g.commit_if_no_changes
    /\ ~dry_run
    /\ Finished(1)
    /\ RanWith(1, "add", {0})
    /\ RanWith(1, "diff", {0})

\* C9: with `push: false` in the configuration no push is ever run or
\* printed, and a repository whose commit succeeded returns 0.
C9_PushDisabled ==
    (ValidConfig /\ cfg.global_raw.push = <<FALSE>>) =>
        /\ \A n \in DOMAIN cmds : Op(cmds[n]) # "push"
        /\ \A n \in DOMAIN printed : Op(printed[n]) # "push"
        /\ \A k \in DOMAIN results :
              (RanWith(k, "commit", {0}) \/ Printed(k, {"commit"})) =>
                  results[k] = Returned(0)

\* With push disabled, two repositories committed successfully.
C9_Witness ==
    /\ cfg.global_raw.push = <<FALSE>>
    /\ ~dry_run
    /\ Len(results) = 2
    /\ RanWith(1, "commit", {0})
    /\ RanWith(2, "commit", {0})

\* C10: in normal mode a non-zero exit of the rebase-pull is the last
\* command run for that repository (no add, staged-changes check, commit or
\* push follows) and sync_repo returns 1.
C10_PullFailureStops ==
    \A n \in DOMAIN cmds :
        (Op(cmds[n]) = "pull" /\ cmds[n].rc # 0) =>
            /\ \A m \in DOMAIN cmds : m > n => cmds[m].repo # cmds[n].repo
            /\ (i = cmds[n].repo => pc = "collect")
            /\ (Finished(cmds[n].repo) => results[cmds[n].repo] = Returned(1))

\* The pull of the first repository failed and the second repository was
\* processed after it.
C10_Witness ==
    /\ ~dry_run
    /\ g.pull_rebase
    /\ RanWith(1, "pull", {1})
    /\ Finished(1)
    /\ Ran(2, {"add"})

\* C11: for a valid configuration load_config returns one repository
\* setting per entry of `repos`, in list order, each omitted key taking its
\* default (remote "origin", branch "main", message "Auto-commit
\* {timestamp}", excludes empty) and each given key its value; the omitted
\* global keys default to pull_rebase true, push true, commit_if_no_changes
\* false.
C11_LoaderDefaults ==
    (ValidConfig /\ pc = "loop") =>
        /\ Len(repos) = Len(cfg.repos_raw.items)
        /\ \A k \in DOMAIN cfg.repos_raw.items :
              LET raw == cfg.repos_raw.items[k]
              IN  /\ repos[k].path = "/home/user/vault"
                  /\ repos[k].remote =
                        IF raw.remote = <<>> THEN "origin" ELSE raw.remote[1]
                  /\ repos[k].branch =
                        IF raw.branch = <<>> THEN "main" ELSE raw.branch[1]
                  /\ repos[k].message =
                        IF raw.message = <<>>
                        THEN <<"Auto-commit ", "{timestamp}">>
                        ELSE raw.message[1]
                  /\ repos[k].excludes =
                        IF raw.excludes = <<>> THEN <<>> ELSE raw.excludes[1]
        /\ g.pull_rebase =
              (cfg.global_raw.pull_rebase = <<>> \/ cfg.global_raw.pull_rebase[1])
        /\ g.push = (cfg.global_raw.push = <<>> \/ cfg.global_raw.push[1])
        /\ g.commit_if_no_changes =
              (cfg.global_raw.commit_if_no_changes # <<>>
               /\ cfg.global_raw.commit_if_no_changes[1])

\* load_config has returned two settings: the first entry gave only its
\* path, the second gave a remote and no branch; `push` was given false and
\* `pull_rebase` omitted.
C11_Witness ==
    /\ pc = "loop"
    /\ Len(repos) = 2
    /\ cfg.repos_raw.items[1] = EntryPathOnly
    /\ cfg.repos_raw.items[2].remote = <<"backup">>
    /\ cfg.repos_raw.items[2].branch = <<>>
    /\ repos[2].branch = "main"
    /\ cfg.global_raw.pull_rebase = <<>>
    /\ cfg.global_raw.push = <<FALSE>>

\* The message template of the k-th configured repository.
TemplateOf(k) ==
    IF cfg.repos_raw.items[k].message = <<>>
    THEN <<"Auto-commit ", "{timestamp}">>
    ELSE cfg.repos_raw.items[k].message[1]

\* The commit commands of the run, executed or printed.
Commits ==
    {cmds[n] : n \in {m \in DOMAIN cmds : Op(cmds[m]) = "commit"}}
    \cup {[repo |-> printed[n].repo, argv |-> printed[n].argv, rc |-> 0] :
            n \in {m \in DOMAIN printed : Op(printed[m]) = "commit"}}

\* C12: the timestamp is captured before the first repository is
\* processed, and every commit message of the run is the repository's
\* template with "{timestamp}" replaced by that one value, however far the
\* clock has moved since: repositories with the same template get the same
\* message.
C12_OneTimestamp ==
    /\ calls # <<>> => ts \in Timestamps
    /\ \A c \in Commits :
          c.argv[4] =
            [j \in DOMAIN TemplateOf(c.repo) |->
                IF TemplateOf(c.repo)[j] = "{timestamp}" THEN ts
                ELSE TemplateOf(c.repo)[j]]
    /\ \A c, d \in Commits :
          TemplateOf(c.repo) = TemplateOf(d.repo) => c.argv[4] = d.argv[4]

\* Two repositories with the same template have committed, and the clock
\* has moved on since the timestamp was captured.
C12_Witness ==
    /\ ts = "2026-01-01 00:00:00"
    /\ now = "2026-01-01 00:00:09"
    /\ Len(cfg.repos_raw.items) = 2
    /\ TemplateOf(1) = TemplateOf(2)
    /\ RanWith(1, "commit", {0})
    /\ pc = "push"
    /\ i = 2
    /\ RanWith(2, "commit", {0})

\* Subcommands run for repository k, in order.
RanOps(k) ==
    LET OfRepo(c) == c.repo = k
        sel == SelectSeq(cmds, OfRepo)
    IN  [n \in DOMAIN sel |-> Op(sel[n])]

\* The fixed command sequence of a repository under the loaded settings.
FullPlan ==
    (IF g.pull_rebase THEN <<"fetch", "pull">> ELSE <<>>)
    \o <<"add", "diff", "commit">>
    \o (IF g.push THEN <<"push">> ELSE <<>>)

\* C13: in normal mode the commands run for a repository are a prefix of
\* fetch, pull, add, staged-changes check, commit, push (without fetch and
\* pull when pull_rebase is false, without push when push is false), hence
\* each at most once; a commit is run only after a successful add and a
\* check that reported staged changes, a push only after a successful
\* commit.
C13_LinearSequence ==
    ~dry_run =>
        \A k \in DOMAIN calls :
            /\ IsPrefix(RanOps(k), FullPlan)
            /\ Ran(k, {"commit"}) =>
                  RanWith(k, "add", {0}) /\ RanWith(k, "diff", {1})
            /\ Ran(k, {"push"}) => RanWith(k, "commit", {0})

\* A normal run took one repository through the whole sequence and a
\* second one up to a failed commit.
C13_Witness ==
    /\ ~dry_run
    /\ Len(results) = 2
    /\ RanOps(1) = <<"fetch", "pull", "add", "diff", "commit", "push">>
    /\ RanOps(2) = <<"fetch", "pull", "add", "diff", "commit">>
    /\ RanWith(2, "commit", {1})

\* C14: in normal mode sync_repo returns 0 exactly when the repository is
\* valid, the pull (when enabled) and the add succeeded, and either nothing
\* was staged or the commit succeeded and the push was disabled or
\* succeeded; a missing directory, a directory without .git, a failed pull,
\* add, commit or push each yield the return value 1, not an exception.
C14_ReturnValue ==
    ~dry_run =>
        \A k \in DOMAIN results :
            /\ results[k] = Returned(0) <=>
                  /\ disk[k] = "repo"
                  /\ g.pull_rebase => RanWith(k, "pull", {0})
                  /\ RanWith(k, "add", {0})
                  /\ \/ RanWith(k, "diff", {0})
                     \/ /\ RanWith(k, "commit", {0})
                        /\ ~g.push \/ RanWith(k, "push", {0})
            /\ ( \/ disk[k] # "repo"
                 \/ RanWith(k, "pull", {1})
                 \/ RanWith(k, "add", {1})
                 \/ RanWith(k, "commit", {1})
                 \/ RanWith(k, "push", {1}) ) => results[k] = Returned(1)

\* A normal run finished one repository whose push succeeded and one whose
\* push failed.
C14_Witness ==
    /\ ~dry_run
    /\ Len(results) = 2
    /\ RanWith(1, "push", {0})
    /\ results[1] = Returned(0)
    /\ RanWith(2, "push", {1})
    /\ results[2] = Returned(1)

\* Subcommands and exit codes of the commands run for repository k, the
\* fetch left out.
OutcomesButFetch(k) ==
    LET Counts(c) == c.repo = k /\ Op(c) # "fetch"
        sel == SelectSeq(cmds, Counts)
    IN  [n \in DOMAIN sel |-> <<Op(sel[n]), sel[n].rc>>]

\* C15: in normal mode the exit code of the fetch is ignored: whatever it
\* is, the next command is the rebase-pull of the same repository, and two
\* repositories of a run whose other commands ended alike have the same
\* outcome, whatever their fetches returned.
C15_FetchIgnored ==
    ~dry_run =>
        /\ \A n \in DOMAIN cmds :
              Op(cmds[n]) = "fetch" =>
                  IF n = Len(cmds)
                  THEN pc = "pull" /\ i = cmds[n].repo
                  ELSE /\ cmds[n + 1].repo = cmds[n].repo
                       /\ Op(cmds[n + 1]) = "pull"
        /\ \A k1, k2 \in DOMAIN results :
              (disk[k1] = disk[k2]
               /\ OutcomesButFetch(k1) = OutcomesButFetch(k2)) =>
                  results[k1] = results[k2]

\* The fetch of the first repository failed, the fetch of the second
\* succeeded, and both went on to a successful push.
C15_Witness ==
    /\ ~dry_run
    /\ Len(results) = 2
    /\ RanWith(1, "fetch", {1})
    /\ RanWith(2, "fetch", {0})
    /\ RanWith(1, "push", {0})
    /\ RanWith(2, "push", {0})
    /\ results[1] = Returned(0)

\* C16: when the staged-changes check exits above 1, sync_repo raises: no
\* commit or push is run or printed for that repository, main records the
\* exception and counts the repository as failed, and the run ends with
\* every configured repository processed and an exit code of at least 1.
C16_CheckErrorRaises ==
    \A k \in DOMAIN calls :
        RanWith(k, "diff", {2}) =>
            /\ ~Ran(k, {"commit", "push"})
            /\ ~Printed(k, {"commit", "push"})
            /\ i = k => pc = "collect" /\ ret = Raised
            /\ Finished(k) => results[k] = Raised /\ overall >= 1
            /\ pc = "done" =>
                  /\ exitcode >= 1
                  /\ calls = ConfiguredOrder
                  /\ Len(results) = Len(calls)

\* The staged-changes check of the first repository failed; the second
\* repository was still synchronised and the run ended with exit code 1.
C16_Witness ==
    /\ pc = "done"
    /\ RanWith(1, "diff", {2})
    /\ results[1] = Raised
    /\ Len(results) = 2
    /\ results[2] = Returned(0)
    /\ RanWith(2, "diff", {1})
    /\ exitcode = 1

\* Two recorded commands are the same command with the same exit code.
SameCmd(c, d) ==
    /\ c.repo = d.repo
    /\ Op(c) = Op(d)
    /\ c.rc = d.rc
    /\ c.argv = d.argv

\* Two printed commands are the same.
SamePrint(c, d) == c.repo = d.repo /\ Op(c) = Op(d) /\ c.argv = d.argv

\* C17: a second run over the same repositories whose child processes
\* exit as in the first run, and whose configuration differs only in
\* commit_if_no_changes, runs and prints the same commands in the same
\* order, and ends with the same per-repository outcomes and the same exit
\* code.
C17_FlagHasNoEffect ==
    first.done =>
        /\ Len(cmds) <= Len(first.cmds)
        /\ \A n \in DOMAIN cmds : SameCmd(cmds[n], first.cmds[n])
        /\ Len(printed) <= Len(first.printed)
        /\ \A n \in DOMAIN printed : SamePrint(printed[n], first.printed[n])
        /\ IsPrefix(results, first.results)
        /\ pc = "done" =>
              /\ Len(cmds) = Len(first.cmds)
              /\ Len(printed) = Len(first.printed)
              /\ results = first.results
              /\ exitcode = first.exitcode

\* Both runs are over; the second had commit_if_no_changes set, the first
\* had not; nothing was staged in the first repository and the second
\* repository was committed.
C17_Witness ==
    /\ first.done
    /\ pc = "done"
    /\ g.commit_if_no_changes
    /\ ~dry_run
    /\ Len(results) = 2
    /\ RanWith(1, "diff", {0})
    /\ RanWith(2, "commit", {0})

====
